---- MODULE Spec2Model ----
(***************************************************************************)
(* The suggestion fetcher of LocationAutocomplete.tsx (the first component *)
(* of that file): the debounce timer, the in-flight request with its abort *)
(* controller, and the insertion-ordered suggestion cache.                 *)
(*                                                                         *)
(* Query texts are sequences of one-character strings, so that trimming    *)
(* and case folding are computed rather than assumed.  The variables       *)
(* suggestions, error and isLoading hold the last value handed to the      *)
(* corresponding React state setter.                                       *)
(*                                                                         *)
(* The second part models the trip form (TripPlanningForm) and its map     *)
(* selector (TripMapSelector.tsx): address geocoding, the route distance   *)
(* with its straight-line fallback, and the cost derived from it.  Numbers *)
(* of kilometres are held in thousandths; trigonometry is fixed-point in   *)
(* thousandths over angles that are multiples of 15 degrees.               *)
(***************************************************************************)
EXTENDS Integers, Sequences, FiniteSets, TLC

\* ------------------------------------------------------------------------
\* Program constants
\* ------------------------------------------------------------------------
DebounceMs == 150
CacheLimit == 50
MinQueryLength == 2

\* ------------------------------------------------------------------------
\* Bounds of the model
\* ------------------------------------------------------------------------
\* Network requests issued in one session.
MaxRequests == 2

\* Amounts of time that may pass between two events (milliseconds).
TimeSteps == {75, 150}

\* The texts the user may have in the input.
QueryTexts ==
    { <<>>,
      <<"p">>,
      <<" ", "p">>,
      <<"p", "a">>,
      <<"P", "A", " ">> }

\* Bodies the text-search provider may answer with (JSON null, or an array
\* of place ids).
Payloads ==
    { [isNull |-> TRUE,  items |-> <<>>],
      [isNull |-> FALSE, items |-> <<>>],
      [isNull |-> FALSE, items |-> <<1, 2>>] }

NoError == "null"
SearchFailed == "Failed to search locations. Please try again."

\* ------------------------------------------------------------------------
\* String.prototype.toLowerCase and String.prototype.trim
\* ------------------------------------------------------------------------
LowerChar(c) ==
    CASE c = "P" -> "p"
      [] c = "A" -> "a"
      [] c = "R" -> "r"
      [] c = "Z" -> "z"
      [] OTHER -> c

ToLowerCase(s) == [i \in 1..Len(s) |-> LowerChar(s[i])]

IsSpace(c) == c = " "

RECURSIVE TrimStart(_)
TrimStart(s) ==
    IF s # <<>> /\ IsSpace(Head(s)) THEN TrimStart(Tail(s)) ELSE s

RECURSIVE TrimEnd(_)
TrimEnd(s) ==
    IF s # <<>> /\ IsSpace(s[Len(s)])
    THEN TrimEnd(SubSeq(s, 1, Len(s) - 1))
    ELSE s

Trim(s) == TrimEnd(TrimStart(s))

\* const cacheKey = query.toLowerCase().trim();
CacheKey(query) == Trim(ToLowerCase(query))

\* ------------------------------------------------------------------------
\* The cache: a JavaScript Map, i.e. entries in insertion order
\* ------------------------------------------------------------------------
CacheKeys(c) == {c[i].key : i \in 1..Len(c)}

CacheHas(c, k) == k \in CacheKeys(c)

CacheIndex(c, k) == CHOOSE i \in 1..Len(c) : c[i].key = k

\* Map.prototype.get.  An entry also records, for the analysis only, the
\* number of the insertion that created it (stamp) and whether it has
\* answered a query since (hit); neither is read by the program.
CacheGet(c, k) == c[CacheIndex(c, k)].val

NextStamp(c) ==
    IF c = <<>>
    THEN 1
    ELSE 1 + (CHOOSE m \in {c[i].stamp : i \in 1..Len(c)} :
                 \A i \in 1..Len(c) : c[i].stamp <= m)

\* Map.prototype.set: a present key keeps its position, a new key goes last.
CacheSet(c, k, v) ==
    IF CacheHas(c, k)
    THEN [c EXCEPT ![CacheIndex(c, k)].val = v]
    ELSE Append(c, [key |-> k, val |-> v, stamp |-> NextStamp(c), hit |-> FALSE])

\* A cache that moves an entry to the end when it is read (recency order).
CacheTouchMoveToEnd(c, k) ==
    Append(SelectSeq(c, LAMBDA e : e.key # k), [c[CacheIndex(c, k)] EXCEPT !.hit = TRUE])

\* Reading an entry of a Map does not move it.
CacheTouch(c, k) == [c EXCEPT ![CacheIndex(c, k)].hit = TRUE]

\* A cache whose size is never limited.
LimitCacheSizeOff(c) == c

\* if (size > 50) delete(keys().next().value)
LimitCacheSize(c) == IF Len(c) > CacheLimit THEN Tail(c) ELSE c

\* const results = data || [];
ResultsOf(data) == IF data.isNull THEN <<>> ELSE data.items

VARIABLES
    value,              \* the text of the input (prop `value`)
    suggestions,        \* useState: published suggestion list
    isLoading,          \* useState
    error,              \* useState: NoError or a message
    abortControllerRef, \* 0 (null) or the id of the request whose controller it holds
    cache,              \* cacheRef.current
    timers,             \* pending setTimeout callbacks: [id, query, elapsed]
    timeoutId,          \* the handle kept in debouncedSearch's closure (0: undefined)
    inflight,           \* requests not yet settled: [id, query, stage, aborted, stale]
    issued,             \* number of network requests issued so far
    mounted,            \* FALSE once the component has been unmounted
    quiet,              \* time since the last query change, capped at DebounceMs
    burst,              \* query changes of the current burst (gaps < DebounceMs), capped at 2
    burstFires,         \* timer fires since the last query change, capped at 2
    lastOp,             \* the step that led to this state
    isOpen,             \* useState: the dropdown is open
    selectedIndex,      \* useState: -1 or the index (from 0) of the highlighted suggestion
    \* --- TripPlanningForm ---
    showMap,            \* useState: the map selector is rendered
    startingAddress,    \* form field (form.watch)
    endingAddress,      \* form field (form.watch)
    destinations,       \* useState: waypoints [id, lat, lng]
    totalDistance,      \* useState: the published distance (a JavaScript number)
    tripCost,           \* const tripCost of the last render
    submittedData,      \* useState: <<>> (null) or <<record>>
    \* --- TripMapSelector ---
    startCoords,        \* useState: <<>> (null) or <<lat, lon>>
    endCoords,          \* useState: <<>> (null) or <<lat, lon>>
    geoInflight,        \* geocodeAddress calls awaiting the provider: [id, field, address]
    routeInflight,      \* calculateRouteDistance calls awaiting the provider: [id, coords, path]
    providerRequests,   \* number of geocoding and route requests issued so far
    now,                \* the last reading of Date.now()
    effect,             \* "skipped": the last step ran the distance effect on fewer
                        \* than 2 coordinates; "none": any other step
    answer,             \* the provider's answer the last step handled; NoAnswer when
                        \* the step handled none
    \* --- DestinationSearchInput ---
    searchValue,        \* useState(''): the text of the search input
    searchOp,           \* the handler of the search input run by the last step:
                        \* "change", "select" or "addCurrent"; "none": any other step
    \* --- direct calls of the distance functions ---
    calc                \* [coords, fn, pc, requests, result]

fetcherVars ==
    <<value, suggestions, isLoading, error, abortControllerRef, cache, timers,
      timeoutId, inflight, issued, mounted, quiet, burst, burstFires, lastOp,
      isOpen, selectedIndex>>

dropdownVars == <<isOpen, selectedIndex>>

tripVars ==
    <<showMap, startingAddress, endingAddress, destinations, totalDistance, tripCost,
      submittedData, startCoords, endCoords, geoInflight, routeInflight,
      providerRequests, now, effect, answer>>

searchVars == <<searchValue, searchOp>>

vars == <<fetcherVars, tripVars, searchVars, calc>>

Min(a, b) == IF a < b THEN a ELSE b

\* op: the step; query: the text it handled; req: it issued a request;
\* stale: the request it settled had been superseded by a later timer fire;
\* results: the list it received; evicted: the cache entries it deleted.
Op(name, query, req, stale, results, evicted) ==
    [op |-> name, query |-> query, req |-> req, stale |-> stale,
     results |-> results, evicted |-> evicted]

\* ------------------------------------------------------------------------
\* debouncedSearch
\* ------------------------------------------------------------------------
\* A debounce that forgets to cancel the pending timer.
ClearTimeoutForgotten(ts, id) == ts

ClearTimeout(ts, id) == {t \in ts : t.id # id}

FreshTimerId(ts) == CHOOSE n \in 1..(Cardinality(ts) + 1) : \A t \in ts : t.id # n

SetTimeout(ts, query) ==
    ts \cup {[id |-> FreshTimerId(ts), query |-> query, elapsed |-> 0]}

\* clearTimeout(timeoutId); timeoutId = setTimeout(..., 150)
DebouncedSearch(ts, id, query) == SetTimeout(ClearTimeout(ts, id), query)

NewTimeoutId(ts, id) == FreshTimerId(ClearTimeout(ts, id))

\* A searchLocations that leaves the previous request running.
AbortForgotten(reqs, ctl) == reqs

\* abortControllerRef.current.abort(): the request of that controller, when
\* it has not settled, is marked aborted.
Abort(reqs, ctl) ==
    {IF r.id = ctl THEN [r EXCEPT !.aborted = TRUE] ELSE r : r \in reqs}

MarkStale(reqs) == {[r EXCEPT !.stale = TRUE] : r \in reqs}

\* The state after the first render and its effects, with cache c.
Mounted(c) ==
    /\ value = <<>>
    /\ suggestions = <<>>
    /\ isLoading = FALSE
    /\ error = NoError
    /\ abortControllerRef = 0
    /\ cache = c
    /\ timers = SetTimeout({}, <<>>)
    /\ timeoutId = 1
    /\ inflight = {}
    /\ issued = 0
    /\ mounted = TRUE
    /\ quiet = 0
    /\ burst = 1
    /\ burstFires = 0
    /\ lastOp = Op("mount", <<>>, FALSE, FALSE, <<>>, <<>>)
    /\ isOpen = FALSE
    /\ selectedIndex = -1

\* A session in which CacheLimit distinct queries have been answered: first
\* "pa", then "zz", "zzz", ... (the user typing one more z each time).
WarmKey(i) == IF i = 1 THEN <<"p", "a">> ELSE [j \in 1..i |-> "z"]

WarmCache ==
    [i \in 1..CacheLimit |->
        [key |-> WarmKey(i), val |-> <<1, 2>>, stamp |-> i, hit |-> FALSE]]

\* ------------------------------------------------------------------------
\* useEffect(() => debouncedSearch(value), [value]): the text changed
\* ------------------------------------------------------------------------
ChangeQuery(t) ==
    /\ mounted
    /\ t # value
    /\ value' = t
    /\ timers' = DebouncedSearch(timers, timeoutId, t)
    /\ timeoutId' = NewTimeoutId(timers, timeoutId)
    /\ burst' = IF quiet < DebounceMs THEN Min(burst + 1, 2) ELSE 1
    /\ quiet' = 0
    /\ burstFires' = 0
    /\ lastOp' = Op("change", <<>>, FALSE, FALSE, <<>>, <<>>)
    /\ UNCHANGED <<tripVars, searchVars, dropdownVars, calc>>
    /\ UNCHANGED <<suggestions, isLoading, error, abortControllerRef, cache,
                   inflight, issued, mounted>>

\* Time passes.
Advance(d) ==
    /\ ~(quiet >= DebounceMs /\ \A t \in timers : t.elapsed >= DebounceMs)
    /\ timers' = {[t EXCEPT !.elapsed = Min(t.elapsed + d, DebounceMs)] : t \in timers}
    /\ quiet' = Min(quiet + d, DebounceMs)
    /\ lastOp' = Op("advance", <<>>, FALSE, FALSE, <<>>, <<>>)
    /\ UNCHANGED <<tripVars, searchVars, dropdownVars, calc>>
    /\ UNCHANGED <<value, suggestions, isLoading, error, abortControllerRef, cache,
                   timeoutId, inflight, issued, mounted, burst, burstFires>>

\* ------------------------------------------------------------------------
\* searchLocations, up to its first await
\* ------------------------------------------------------------------------
TooShort(query) == Len(query) < MinQueryLength

NewRequest(id, query) ==
    [id |-> id, query |-> query, stage |-> "fetch", aborted |-> FALSE, stale |-> FALSE]

SearchLocations(query) ==
    IF TooShort(query)
    THEN /\ suggestions' = <<>>
         /\ error' = NoError
         /\ inflight' = MarkStale(inflight)
         /\ lastOp' = Op("fire", query, FALSE, FALSE, <<>>, <<>>)
         /\ UNCHANGED <<isLoading, abortControllerRef, issued, cache>>
    ELSE IF CacheHas(cache, CacheKey(query))
    THEN /\ suggestions' = CacheGet(cache, CacheKey(query))
         /\ error' = NoError
         /\ cache' = CacheTouch(cache, CacheKey(query))
         /\ inflight' = MarkStale(inflight)
         /\ lastOp' = Op("fire", query, FALSE, FALSE, <<>>, <<>>)
         /\ UNCHANGED <<isLoading, abortControllerRef, issued>>
    ELSE /\ issued < MaxRequests
         /\ inflight' = MarkStale(Abort(inflight, abortControllerRef))
                            \cup {NewRequest(issued + 1, query)}
         /\ abortControllerRef' = issued + 1
         /\ issued' = issued + 1
         /\ isLoading' = TRUE
         /\ error' = NoError
         /\ lastOp' = Op("fire", query, TRUE, FALSE, <<>>, <<>>)
         /\ UNCHANGED <<suggestions, cache>>

\* The callback given to setTimeout.
TimerFire(t) ==
    /\ t.elapsed >= DebounceMs
    /\ timers' = timers \ {t}
    /\ burstFires' = Min(burstFires + 1, 2)
    /\ IF t.query # <<>>
       THEN SearchLocations(t.query)
       ELSE /\ suggestions' = <<>>
            /\ error' = NoError
            /\ inflight' = MarkStale(inflight)
            /\ lastOp' = Op("fire", t.query, FALSE, FALSE, <<>>, <<>>)
            /\ UNCHANGED <<isLoading, abortControllerRef, issued, cache>>
    /\ UNCHANGED <<tripVars, searchVars, dropdownVars, calc>>
    /\ UNCHANGED <<value, timeoutId, mounted, quiet, burst>>

\* ------------------------------------------------------------------------
\* searchLocations, after an await
\* ------------------------------------------------------------------------
\* A failure handler that sets the error but leaves the old list published.
GenuineFailureKeepsList(r) ==
    /\ error' = SearchFailed
    /\ isLoading' = FALSE
    /\ inflight' = inflight \ {r}
    /\ lastOp' = Op("failure", r.query, FALSE, r.stale, <<>>, <<>>)
    /\ UNCHANGED <<tripVars, searchVars, dropdownVars, calc>>
    /\ UNCHANGED <<value, suggestions, abortControllerRef, cache, timers, timeoutId,
                   issued, mounted, quiet, burst, burstFires>>

\* catch (error) with error.name !== 'AbortError', then finally
GenuineFailure(r) ==
    /\ error' = SearchFailed
    /\ suggestions' = <<>>
    /\ isLoading' = FALSE
    /\ inflight' = inflight \ {r}
    /\ lastOp' = Op("failure", r.query, FALSE, r.stale, <<>>, <<>>)
    /\ UNCHANGED <<tripVars, searchVars, dropdownVars, calc>>
    /\ UNCHANGED <<value, abortControllerRef, cache, timers, timeoutId, issued,
                   mounted, quiet, burst, burstFires>>

\* fetch() resolved with a response: response.ok or not
FetchFulfilled(r, ok) ==
    /\ r.stage = "fetch"
    /\ ~r.aborted
    /\ IF ok
       THEN /\ inflight' = (inflight \ {r}) \cup {[r EXCEPT !.stage = "json"]}
            /\ lastOp' = Op("response", r.query, FALSE, r.stale, <<>>, <<>>)
            /\ UNCHANGED <<tripVars, searchVars, dropdownVars, calc>>
            /\ UNCHANGED <<value, suggestions, isLoading, error, abortControllerRef,
                           cache, timers, timeoutId, issued, mounted, quiet, burst,
                           burstFires>>
       ELSE GenuineFailure(r)

\* fetch() rejected: the network failed
FetchRejected(r) ==
    /\ r.stage = "fetch"
    /\ ~r.aborted
    /\ GenuineFailure(r)

\* response.json() rejected: the body does not parse
JsonRejected(r) ==
    /\ r.stage = "json"
    /\ ~r.aborted
    /\ GenuineFailure(r)

\* A success path that forgets to write the cache.
StoreResultsSkipped(c, k, v) == c

\* cacheRef.current.set(cacheKey, results) and the size limit
StoreResults(c, k, v) == LimitCacheSize(CacheSet(c, k, v))

Evicted(before, after) ==
    SelectSeq(before, LAMBDA e : ~CacheHas(after, e.key))

\* response.json() resolved with the parsed body
JsonFulfilled(r, data) ==
    /\ r.stage = "json"
    /\ ~r.aborted
    /\ cache' = StoreResults(cache, CacheKey(r.query), ResultsOf(data))
    /\ suggestions' = ResultsOf(data)
    /\ isLoading' = FALSE
    /\ inflight' = inflight \ {r}
    /\ lastOp' = Op("success", r.query, FALSE, r.stale, ResultsOf(data),
                       Evicted(cache, cache'))
    /\ UNCHANGED <<tripVars, searchVars, dropdownVars, calc>>
    /\ UNCHANGED <<value, error, abortControllerRef, timers, timeoutId, issued,
                   mounted, quiet, burst, burstFires>>

\* A catch block without the AbortError test.
AbortErrorReported(r) ==
    /\ r.aborted
    /\ error' = SearchFailed
    /\ suggestions' = <<>>
    /\ isLoading' = FALSE
    /\ inflight' = inflight \ {r}
    /\ lastOp' = Op("cancelled", r.query, FALSE, r.stale, <<>>, <<>>)
    /\ UNCHANGED <<tripVars, searchVars, dropdownVars, calc>>
    /\ UNCHANGED <<value, abortControllerRef, cache, timers, timeoutId, issued,
                   mounted, quiet, burst, burstFires>>

\* A cancelled request that leaves without running the finally block.
AbortErrorWithoutFinally(r) ==
    /\ r.aborted
    /\ inflight' = inflight \ {r}
    /\ lastOp' = Op("cancelled", r.query, FALSE, r.stale, <<>>, <<>>)
    /\ UNCHANGED <<tripVars, searchVars, dropdownVars, calc>>
    /\ UNCHANGED <<value, suggestions, isLoading, error, abortControllerRef, cache,
                   timers, timeoutId, issued, mounted, quiet, burst, burstFires>>

\* The pending await of an aborted request rejects with an AbortError:
\* the catch block does nothing, finally runs.
AbortErrorCaught(r) ==
    /\ r.aborted
    /\ isLoading' = FALSE
    /\ inflight' = inflight \ {r}
    /\ lastOp' = Op("cancelled", r.query, FALSE, r.stale, <<>>, <<>>)
    /\ UNCHANGED <<tripVars, searchVars, dropdownVars, calc>>
    /\ UNCHANGED <<value, suggestions, error, abortControllerRef, cache, timers,
                   timeoutId, issued, mounted, quiet, burst, burstFires>>

\* ------------------------------------------------------------------------
\* The cleanup of the mount effect
\* ------------------------------------------------------------------------
Unmount ==
    /\ mounted
    /\ mounted' = FALSE
    /\ inflight' = Abort(inflight, abortControllerRef)
    /\ lastOp' = Op("unmount", <<>>, FALSE, FALSE, <<>>, <<>>)
    /\ UNCHANGED <<tripVars, searchVars, dropdownVars, calc>>
    /\ UNCHANGED <<value, suggestions, isLoading, error, abortControllerRef, cache,
                   timers, timeoutId, issued, quiet, burst, burstFires>>

\* ------------------------------------------------------------------------
\* The dropdown: input events, keys and clicks on a suggestion
\* ------------------------------------------------------------------------
Keys == {"ArrowDown", "ArrowUp", "Enter", "Escape"}

\* suggestion.display_name of a place
DisplayName(place) == IF place = 1 THEN <<"p", "a">> ELSE <<"P", "A", " ">>

\* handleInputChange: the parent stores the new text, the effect on value
\* runs debouncedSearch, the dropdown opens without a highlight.
HandleInputChange(t) ==
    /\ mounted
    /\ t # value
    /\ value' = t
    /\ timers' = DebouncedSearch(timers, timeoutId, t)
    /\ timeoutId' = NewTimeoutId(timers, timeoutId)
    /\ burst' = IF quiet < DebounceMs THEN Min(burst + 1, 2) ELSE 1
    /\ quiet' = 0
    /\ burstFires' = 0
    /\ isOpen' = TRUE
    /\ selectedIndex' = -1
    /\ lastOp' = Op("change", <<>>, FALSE, FALSE, <<>>, <<>>)
    /\ UNCHANGED <<tripVars, searchVars, calc>>
    /\ UNCHANGED <<suggestions, isLoading, error, abortControllerRef, cache,
                   inflight, issued, mounted>>

\* onFocus={() => setIsOpen(true)}
Focus ==
    /\ mounted
    /\ ~isOpen
    /\ isOpen' = TRUE
    /\ lastOp' = Op("focus", <<>>, FALSE, FALSE, <<>>, <<>>)
    /\ UNCHANGED <<tripVars, searchVars, calc>>
    /\ UNCHANGED <<value, suggestions, isLoading, error, abortControllerRef, cache,
                   timers, timeoutId, inflight, issued, mounted, quiet, burst,
                   burstFires, selectedIndex>>

\* The callback of the timer started by onBlur: setIsOpen(false)
BlurTimeout ==
    /\ mounted
    /\ isOpen
    /\ isOpen' = FALSE
    /\ lastOp' = Op("blur", <<>>, FALSE, FALSE, <<>>, <<>>)
    /\ UNCHANGED <<tripVars, searchVars, calc>>
    /\ UNCHANGED <<value, suggestions, isLoading, error, abortControllerRef, cache,
                   timers, timeoutId, inflight, issued, mounted, quiet, burst,
                   burstFires, selectedIndex>>

\* handleSuggestionClick, in a step named op: the parent stores the display
\* name (the effect on value runs when the text is new), the dropdown
\* closes, the list and the highlight are cleared.
HandleSuggestionClicked(suggestion, op) ==
    LET t == DisplayName(suggestion)
    IN  /\ value' = t
        /\ IF t # value
           THEN /\ timers' = DebouncedSearch(timers, timeoutId, t)
                /\ timeoutId' = NewTimeoutId(timers, timeoutId)
                /\ burst' = IF quiet < DebounceMs THEN Min(burst + 1, 2) ELSE 1
                /\ quiet' = 0
                /\ burstFires' = 0
           ELSE UNCHANGED <<timers, timeoutId, burst, quiet, burstFires>>
        /\ isOpen' = FALSE
        /\ suggestions' = <<>>
        /\ selectedIndex' = -1
        /\ lastOp' = Op(op, t, FALSE, FALSE, <<>>, <<>>)
        /\ UNCHANGED <<tripVars, searchVars, calc>>
        /\ UNCHANGED <<isLoading, error, abortControllerRef, cache, inflight, issued,
                       mounted>>

\* A click on row i of the list, which is rendered while the dropdown is
\* open and there is no error.
SuggestionRowClick(i) ==
    /\ mounted
    /\ isOpen
    /\ error = NoError
    /\ i \in 1..Len(suggestions)
    /\ HandleSuggestionClicked(suggestions[i], "click")

\* handleKeyDown
HandleKeyDown(key) ==
    /\ mounted
    /\ isOpen
    /\ suggestions # <<>>
    /\ CASE key = "ArrowDown" ->
              /\ selectedIndex' = IF selectedIndex < Len(suggestions) - 1
                                  THEN selectedIndex + 1 ELSE 0
              /\ lastOp' = Op(key, <<>>, FALSE, FALSE, <<>>, <<>>)
              /\ UNCHANGED <<tripVars, searchVars, calc>>
              /\ UNCHANGED <<value, suggestions, isLoading, error, abortControllerRef,
                             cache, timers, timeoutId, inflight, issued, mounted, quiet,
                             burst, burstFires, isOpen>>
         [] key = "ArrowUp" ->
              /\ selectedIndex' = IF selectedIndex > 0
                                  THEN selectedIndex - 1 ELSE Len(suggestions) - 1
              /\ lastOp' = Op(key, <<>>, FALSE, FALSE, <<>>, <<>>)
              /\ UNCHANGED <<tripVars, searchVars, calc>>
              /\ UNCHANGED <<value, suggestions, isLoading, error, abortControllerRef,
                             cache, timers, timeoutId, inflight, issued, mounted, quiet,
                             burst, burstFires, isOpen>>
         [] key = "Enter" ->
              /\ selectedIndex >= 0
              /\ selectedIndex < Len(suggestions)
              /\ HandleSuggestionClicked(suggestions[selectedIndex + 1], key)
         [] key = "Escape" ->
              /\ isOpen' = FALSE
              /\ selectedIndex' = -1
              /\ lastOp' = Op(key, <<>>, FALSE, FALSE, <<>>, <<>>)
              /\ UNCHANGED <<tripVars, searchVars, calc>>
              /\ UNCHANGED <<value, suggestions, isLoading, error, abortControllerRef,
                             cache, timers, timeoutId, inflight, issued, mounted, quiet,
                             burst, burstFires>>

\* ========================================================================
\* TripMapSelector: distances
\* ========================================================================
EarthRadiusKm == 6371
MetersPerKm == 1000

\* Coordinates passed to a direct call of a distance function.
MaxCoords == 3

\* A JavaScript number: NaN, or a value (kilometres are in thousandths).
Num(v) == [nan |-> FALSE, v |-> v]

NaN == [nan |-> TRUE, v |-> 0]

\* Math.sin(x * Math.PI / 180) in thousandths, x a multiple of 15 degrees
SinQuadrant(d) ==
    CASE d = 0 -> 0
      [] d = 15 -> 259
      [] d = 30 -> 500
      [] d = 45 -> 707
      [] d = 60 -> 866
      [] d = 75 -> 966
      [] d = 90 -> 1000

Sin(deg) ==
    LET m == deg % 360
    IN  IF m <= 90 THEN SinQuadrant(m)
        ELSE IF m <= 180 THEN SinQuadrant(180 - m)
        ELSE IF m <= 270 THEN 0 - SinQuadrant(m - 180)
        ELSE 0 - SinQuadrant(360 - m)

\* Math.cos(x * Math.PI / 180) in thousandths
Cos(deg) == Sin(deg + 90)

\* Math.sqrt of a value in millionths, in thousandths
RECURSIVE SqrtBetween(_, _, _)
SqrtBetween(n, lo, hi) ==
    IF lo = hi
    THEN lo
    ELSE LET mid == (lo + hi + 1) \div 2
         IN  IF mid * mid <= n THEN SqrtBetween(n, mid, hi) ELSE SqrtBetween(n, lo, mid - 1)

Sqrt(n) == SqrtBetween(n, 0, 1000)

\* Math.atan of a ratio in [0, 1] (thousandths), in milliradians
AtanUnit(z) == (z * (785 + (273 * (1000 - z)) \div 1000)) \div 1000

\* Math.atan2(y, x) for y, x >= 0, in milliradians
Atan2(y, x) ==
    IF y <= x
    THEN AtanUnit((y * 1000) \div x)
    ELSE 1571 - AtanUnit((x * 1000) \div y)

\* A great-circle distance that adds the latitudes instead of subtracting.
HaversineAddsLatitudes(p, q) ==
    LET sLat == Sin((q[1] + p[1]) \div 2)
        sLon == Sin((q[2] - p[2]) \div 2)
        a == sLat * sLat
               + ((Cos(p[1]) * Cos(q[1])) \div 1000) * ((sLon * sLon) \div 1000)
    IN  EarthRadiusKm * 2 * Atan2(Sqrt(a), Sqrt(1000000 - a))

\* A great-circle distance that takes both cosines at the first latitude.
HaversineAtFirstLatitude(p, q) ==
    LET sLat == Sin((q[1] - p[1]) \div 2)
        sLon == Sin((q[2] - p[2]) \div 2)
        a == sLat * sLat
               + ((Cos(p[1]) * Cos(p[1])) \div 1000) * ((sLon * sLon) \div 1000)
    IN  EarthRadiusKm * 2 * Atan2(Sqrt(a), Sqrt(1000000 - a))

\* The body of the loop of calculateStraightLineDistance: R * c for the
\* pair p = [lat1, lon1], q = [lat2, lon2], in thousandths of a kilometre.
Haversine(p, q) ==
    LET sLat == Sin((q[1] - p[1]) \div 2)
        sLon == Sin((q[2] - p[2]) \div 2)
        a == sLat * sLat
               + ((Cos(p[1]) * Cos(q[1])) \div 1000) * ((sLon * sLon) \div 1000)
    IN  EarthRadiusKm * 2 * Atan2(Sqrt(a), Sqrt(1000000 - a))

\* A length test that lets a single coordinate through.
TooFewCoordinatesOffByOne(coordinates) == Len(coordinates) < 1

\* if (coordinates.length < 2) return 0;
TooFewCoordinates(coordinates) == Len(coordinates) < 2

\* The coordinates that occur: [latitude, longitude] in degrees.
CalcPoints ==
    { <<0, 0>>, <<30, 30>>, <<-30, 150>>, <<60, -90>>, <<90, 0>>, <<0, 180>> }

\* Haversine on the coordinates that occur, computed once.
HaversineOfPoints == [p \in CalcPoints |-> [q \in CalcPoints |-> Haversine(p, q)]]

RECURSIVE SumOfLegs(_, _)
SumOfLegs(coordinates, i) ==
    IF i > Len(coordinates) - 1
    THEN 0
    ELSE HaversineOfPoints[coordinates[i]][coordinates[i + 1]]
            + SumOfLegs(coordinates, i + 1)

CalculateStraightLineDistance(coordinates) ==
    IF Len(coordinates) < 2 THEN Num(0) ELSE Num(SumOfLegs(coordinates, 1))

\* coordinates.map(coord => `${coord[1]},${coord[0]}`).join(';')
CoordString(coordinates) ==
    [i \in 1..Len(coordinates) |-> <<coordinates[i][2], coordinates[i][1]>>]

\* What the routing provider may do with a request.
RouteMeters == {150500}

\* distanceInMeters / 1000, in thousandths of a kilometre
MetersToKm(meters) ==
    (meters \div MetersPerKm) * 1000 + ((meters % MetersPerKm) * 1000) \div MetersPerKm

RouteOutcome(kind, ok, meters) == [kind |-> kind, ok |-> ok, meters |-> meters]

RouteOutcomes ==
    {RouteOutcome("network", FALSE, 0)}                            \* fetch rejects
       \cup {RouteOutcome("unparseable", ok, 0) : ok \in BOOLEAN}  \* json() rejects
       \cup {RouteOutcome("null", TRUE, 0)}                        \* body: null
       \cup {RouteOutcome("noRoutes", ok, 0) : ok \in BOOLEAN}     \* body without routes
       \cup {RouteOutcome("emptyRoutes", TRUE, 0)}                 \* routes: []
       \cup {RouteOutcome("noDistance", TRUE, 0)}                  \* routes[0] without distance
       \cup {RouteOutcome("route", TRUE, m) : m \in RouteMeters}

\* One answer for each value calculateRouteDistance can return.
RouteAnswers ==
    {RouteOutcome("network", FALSE, 0), RouteOutcome("noRoutes", FALSE, 0),
     RouteOutcome("noDistance", TRUE, 0)}
       \cup {RouteOutcome("route", TRUE, m) : m \in RouteMeters}

\* A calculateRouteDistance that estimates whenever it has no route.
RouteDistanceEstimatedWithoutRoute(outcome, coordinates) ==
    CASE outcome.kind \in {"network", "unparseable", "null", "noRoutes", "emptyRoutes"} ->
            CalculateStraightLineDistance(coordinates)
      [] outcome.kind = "noDistance" -> NaN
      [] outcome.kind = "route" -> Num(MetersToKm(outcome.meters))

\* calculateRouteDistance after its awaits: the value it returns.
RouteDistanceAfterFetch(outcome, coordinates) ==
    CASE outcome.kind \in {"network", "unparseable", "null"} ->
            CalculateStraightLineDistance(coordinates)
      [] outcome.kind \in {"noRoutes", "emptyRoutes"} -> Num(0)
      [] outcome.kind = "noDistance" -> NaN
      [] outcome.kind = "route" -> Num(MetersToKm(outcome.meters))

\* ========================================================================
\* TripPlanningForm and TripMapSelector
\* ========================================================================
\* Waypoints in the list.
MaxWaypoints == 2

\* Requests to the geocoding and routing providers issued in one session.
MaxProviderRequests == 3

\* Readings of Date.now() in one session, in milliseconds after its start.
Instants == {0, 1}

Tunis == <<"T", "u", "n", "i", "s">>
Sousse == <<"S", "o", "u", "s", "s", "e">>

\* Texts of the starting and of the ending address field.
StartTexts == {<<>>, Tunis}
EndTexts == {<<>>, Sousse}

\* Positions the user may click on the map.
MapPoints == { <<0, 0>>, <<60, -90>> }

NoCoords == <<>>

\* Number.prototype.toString and parseFloat, on integers
DigitChar(d) ==
    CASE d = 0 -> "0" [] d = 1 -> "1" [] d = 2 -> "2" [] d = 3 -> "3" [] d = 4 -> "4"
      [] d = 5 -> "5" [] d = 6 -> "6" [] d = 7 -> "7" [] d = 8 -> "8" [] d = 9 -> "9"

DigitValue(c) == CHOOSE d \in 0..9 : DigitChar(d) = c

RECURSIVE NumberToString(_)
NumberToString(n) ==
    IF n < 10 THEN <<DigitChar(n)>> ELSE Append(NumberToString(n \div 10), DigitChar(n % 10))

RECURSIVE ParseDigits(_)
ParseDigits(s) ==
    IF s = <<>> THEN 0 ELSE 10 * ParseDigits(SubSeq(s, 1, Len(s) - 1)) + DigitValue(s[Len(s)])

ParseFloat(s) == IF Head(s) = "-" THEN 0 - ParseDigits(Tail(s)) ELSE ParseDigits(s)

\* Matches of the text-search provider: lat and lon are strings.
MatchNorth == [lat |-> <<"3", "0">>, lon |-> <<"3", "0">>]
MatchSouth == [lat |-> <<"-", "3", "0">>, lon |-> <<"1", "5", "0">>]

GeoOutcome(kind, matches) == [kind |-> kind, matches |-> matches]

\* The places the provider knows for an address, best match first.
MatchesOf(address) == IF address = Tunis THEN <<MatchNorth, MatchSouth>> ELSE <<MatchSouth>>

NoAnswer == GeoOutcome("none", <<>>)

\* What the text-search provider may do with a request for an address.
GeoOutcomes(address) ==
    { GeoOutcome("network", <<>>),        \* fetch rejects
      GeoOutcome("unparseable", <<>>),    \* json() rejects
      GeoOutcome("null", <<>>),           \* body: null
      GeoOutcome("object", <<>>),         \* body: an object without length
      GeoOutcome("matches", <<>>),
      GeoOutcome("matches", MatchesOf(address)) }

\* One answer for each value geocodeAddress can return.
GeoAnswers(address) ==
    { GeoOutcome("network", <<>>), GeoOutcome("matches", MatchesOf(address)) }

\* A resolver that takes the last match instead of the first.
GeocodeAddressTakesLast(outcome) ==
    IF outcome.kind = "matches" /\ Len(outcome.matches) > 0
    THEN <<ParseFloat(outcome.matches[Len(outcome.matches)].lat),
           ParseFloat(outcome.matches[Len(outcome.matches)].lon)>>
    ELSE NoCoords

\* geocodeAddress: the value its promise resolves to
GeocodeAddress(outcome) ==
    IF outcome.kind = "matches" /\ Len(outcome.matches) > 0
    THEN <<ParseFloat(outcome.matches[1].lat), ParseFloat(outcome.matches[1].lon)>>
    ELSE NoCoords

\* A cost at the rate 1.0.
TripCostAtUnitRate(distance) == IF distance.nan THEN NaN ELSE Num(distance.v * 10)

\* const tripCost = totalDistance * 1.3, in ten-thousandths
TripCost(distance) == IF distance.nan THEN NaN ELSE Num(distance.v * 13)

FormConstructed ==
    /\ showMap = FALSE
    /\ startingAddress = <<>>
    /\ endingAddress = <<>>
    /\ destinations = <<>>
    /\ totalDistance = Num(0)
    /\ tripCost = TripCost(Num(0))
    /\ submittedData = <<>>
    /\ startCoords = NoCoords
    /\ endCoords = NoCoords
    /\ geoInflight = {}
    /\ routeInflight = {}
    /\ providerRequests = 0
    /\ now = 0
    /\ effect = "none"
    /\ answer = NoAnswer
    /\ searchValue = <<>>
    /\ searchOp = "none"

\* The selector is rendered: the map is shown and the summary is not.
SelectorMounted == showMap /\ submittedData = <<>>

\* An assembly that puts the end coordinate before the waypoints.
AllCoordinatesEndFirst(sc, dests, ec) ==
    (IF sc = NoCoords THEN <<>> ELSE <<sc>>)
       \o (IF ec = NoCoords THEN <<>> ELSE <<ec>>)
       \o [i \in 1..Len(dests) |-> <<dests[i].lat, dests[i].lng>>]

\* calculateTotalDistance: allCoordinates
AllCoordinates(sc, dests, ec) ==
    (IF sc = NoCoords THEN <<>> ELSE <<sc>>)
       \o [i \in 1..Len(dests) |-> <<dests[i].lat, dests[i].lng>>]
       \o (IF ec = NoCoords THEN <<>> ELSE <<ec>>)

\* A threshold that also recomputes for a single coordinate.
EnoughCoordinatesOffByOne(all) == Len(all) >= 1

\* A threshold that recomputes only from three coordinates on.
EnoughCoordinatesNeedsThree(all) == Len(all) >= 3

\* if (allCoordinates.length >= 2)
EnoughCoordinates(all) == Len(all) >= 2

\* The effect on [startCoords, endCoords, destinations]: calculateTotalDistance
\* up to the await in calculateRouteDistance, after n requests were issued.
CalculateTotalDistance(n, sc, dests, ec) ==
    LET all == AllCoordinates(sc, dests, ec)
    IN  IF EnoughCoordinates(all)
        THEN IF TooFewCoordinates(all)
             THEN /\ totalDistance' = Num(0)
                  /\ tripCost' = TripCost(Num(0))
                  /\ providerRequests' = n
                  /\ effect' = "none"
                  /\ UNCHANGED routeInflight
             ELSE /\ n < MaxProviderRequests
                  /\ providerRequests' = n + 1
                  /\ routeInflight' = routeInflight \cup
                        {[id |-> n + 1, coords |-> all, path |-> CoordString(all)]}
                  /\ effect' = "none"
                  /\ UNCHANGED <<totalDistance, tripCost>>
        ELSE /\ providerRequests' = n
             /\ effect' = "skipped"
             /\ UNCHANGED <<totalDistance, tripCost, routeInflight>>

\* An effect without the test of the address: the empty text is resolved too.
GeocodeAlways(geo, field, address) ==
    [reqs |-> geo.reqs \cup {[id |-> geo.issued + 1, field |-> field,
                               address |-> address]},
     issued |-> geo.issued + 1]

\* An effect that keeps the coordinate it has instead of resolving again.
GeocodeUnlessResolved(geo, field, address) ==
    IF address # <<>> /\ (IF field = "start" THEN startCoords ELSE endCoords) = NoCoords
    THEN [reqs |-> geo.reqs \cup {[id |-> geo.issued + 1, field |-> field,
                                    address |-> address]},
          issued |-> geo.issued + 1]
    ELSE geo

\* useEffect on an address: if (address) geocodeAddress(address).then(set...)
GeocodeIfSet(geo, field, address) ==
    IF address # <<>>
    THEN [reqs |-> geo.reqs \cup {[id |-> geo.issued + 1, field |-> field,
                                    address |-> address]},
          issued |-> geo.issued + 1]
    ELSE geo

Geo == [reqs |-> geoInflight, issued |-> providerRequests]

\* setShowMap(true): the selector mounts and its effects run
ShowMap ==
    LET geo == GeocodeIfSet(GeocodeIfSet(Geo, "start", startingAddress),
                            "end", endingAddress)
    IN  /\ ~showMap
        /\ submittedData = <<>>
        /\ showMap' = TRUE
        /\ geo.issued <= MaxProviderRequests
        /\ geoInflight' = geo.reqs
        /\ CalculateTotalDistance(geo.issued, startCoords, destinations, endCoords)
        /\ UNCHANGED <<startingAddress, endingAddress, destinations, submittedData,
                       startCoords, endCoords, now>>
        /\ searchOp' = "none"
        /\ answer' = NoAnswer
        /\ UNCHANGED <<searchValue, fetcherVars, calc>>

ChangeStartingAddress(t) ==
    LET geo == IF showMap THEN GeocodeIfSet(Geo, "start", t) ELSE Geo
    IN  /\ submittedData = <<>>
        /\ t # startingAddress
        /\ startingAddress' = t
        /\ geo.issued <= MaxProviderRequests
        /\ geoInflight' = geo.reqs
        /\ providerRequests' = geo.issued
        /\ effect' = "none"
        /\ UNCHANGED <<showMap, endingAddress, destinations, totalDistance, tripCost,
                       submittedData, startCoords, endCoords, routeInflight, now>>
        /\ searchOp' = "none"
        /\ answer' = NoAnswer
        /\ UNCHANGED <<searchValue, fetcherVars, calc>>

ChangeEndingAddress(t) ==
    LET geo == IF showMap THEN GeocodeIfSet(Geo, "end", t) ELSE Geo
    IN  /\ submittedData = <<>>
        /\ t # endingAddress
        /\ endingAddress' = t
        /\ geo.issued <= MaxProviderRequests
        /\ geoInflight' = geo.reqs
        /\ providerRequests' = geo.issued
        /\ effect' = "none"
        /\ UNCHANGED <<showMap, startingAddress, destinations, totalDistance, tripCost,
                       submittedData, startCoords, endCoords, routeInflight, now>>
        /\ searchOp' = "none"
        /\ answer' = NoAnswer
        /\ UNCHANGED <<searchValue, fetcherVars, calc>>

\* A selector that keeps the coordinate it has when a resolution finds
\* nothing.
GeocodeSettlesKeepsCoordinate(g, outcome) ==
    LET before == IF g.field = "start" THEN startCoords ELSE endCoords
        coords == IF GeocodeAddress(outcome) = NoCoords THEN before
                  ELSE GeocodeAddress(outcome)
        sc == IF g.field = "start" THEN coords ELSE startCoords
        ec == IF g.field = "end" THEN coords ELSE endCoords
    IN  /\ geoInflight' = geoInflight \ {g}
        /\ startCoords' = sc
        /\ endCoords' = ec
        /\ IF SelectorMounted /\ GeocodeAddress(outcome) # NoCoords
           THEN CalculateTotalDistance(providerRequests, sc, destinations, ec)
           ELSE /\ effect' = "none"
                /\ UNCHANGED <<totalDistance, tripCost, routeInflight, providerRequests>>
        /\ UNCHANGED <<showMap, startingAddress, endingAddress, destinations,
                       submittedData, now>>
        /\ searchOp' = "none"
        /\ UNCHANGED <<searchValue, fetcherVars, calc>>

\* A selector that drops the answer of a resolution when a later one was
\* started for the same field.
GeocodeSettlesNewestOnly(g, outcome) ==
    LET newest == \A h \in geoInflight : h.field = g.field => h.id <= g.id
        coords == IF newest THEN GeocodeAddress(outcome)
                  ELSE IF g.field = "start" THEN startCoords ELSE endCoords
        sc == IF g.field = "start" THEN coords ELSE startCoords
        ec == IF g.field = "end" THEN coords ELSE endCoords
        before == IF g.field = "start" THEN startCoords ELSE endCoords
    IN  /\ geoInflight' = geoInflight \ {g}
        /\ startCoords' = sc
        /\ endCoords' = ec
        /\ IF SelectorMounted /\ newest /\ ~(before = NoCoords /\ coords = NoCoords)
           THEN CalculateTotalDistance(providerRequests, sc, destinations, ec)
           ELSE /\ effect' = "none"
                /\ UNCHANGED <<totalDistance, tripCost, routeInflight, providerRequests>>
        /\ UNCHANGED <<showMap, startingAddress, endingAddress, destinations,
                       submittedData, now>>
        /\ searchOp' = "none"
        /\ UNCHANGED <<searchValue, fetcherVars, calc>>

\* geocodeAddress(...).then(setStartCoords) or .then(setEndCoords).  The
\* distance effect runs when the state changed (null after null is no
\* change; a coordinate pair is a new array each time).
GeocodeSettles(g, outcome) ==
    LET coords == GeocodeAddress(outcome)
        sc == IF g.field = "start" THEN coords ELSE startCoords
        ec == IF g.field = "end" THEN coords ELSE endCoords
        before == IF g.field = "start" THEN startCoords ELSE endCoords
    IN  /\ geoInflight' = geoInflight \ {g}
        /\ startCoords' = sc
        /\ endCoords' = ec
        /\ IF SelectorMounted /\ ~(before = NoCoords /\ coords = NoCoords)
           THEN CalculateTotalDistance(providerRequests, sc, destinations, ec)
           ELSE /\ effect' = "none"
                /\ UNCHANGED <<totalDistance, tripCost, routeInflight, providerRequests>>
        /\ UNCHANGED <<showMap, startingAddress, endingAddress, destinations,
                       submittedData, now>>
        /\ searchOp' = "none"
        /\ UNCHANGED <<searchValue, fetcherVars, calc>>

\* addDestination, from a click on the map at position p when the clock
\* reads t
MapClick(p, t) ==
    /\ SelectorMounted
    /\ Len(destinations) < MaxWaypoints
    /\ t >= now
    /\ now' = t
    /\ destinations' = Append(destinations,
                              [id |-> NumberToString(t), lat |-> p[1], lng |-> p[2]])
    /\ CalculateTotalDistance(providerRequests, startCoords, destinations', endCoords)
    /\ UNCHANGED <<showMap, startingAddress, endingAddress, submittedData, startCoords,
                   endCoords, geoInflight>>
    /\ searchOp' = "none"
    /\ answer' = NoAnswer
    /\ UNCHANGED <<searchValue, fetcherVars, calc>>

\* destinations.filter(d => d.id !== dest.id), from the popup of a marker
\* or from the list of the form
RemoveDestination(i) ==
    /\ submittedData = <<>>
    /\ i \in 1..Len(destinations)
    /\ destinations' = SelectSeq(destinations, LAMBDA d : d.id # destinations[i].id)
    /\ IF showMap
       THEN CalculateTotalDistance(providerRequests, startCoords, destinations', endCoords)
       ELSE /\ effect' = "none"
            /\ UNCHANGED <<totalDistance, tripCost, routeInflight, providerRequests>>
    /\ UNCHANGED <<showMap, startingAddress, endingAddress, submittedData, startCoords,
                   endCoords, geoInflight, now>>
    /\ searchOp' = "none"
    /\ answer' = NoAnswer
    /\ UNCHANGED <<searchValue, fetcherVars, calc>>

\* A selector that drops the distance of a computation when a later one is
\* still running.
RouteSettlesNewestOnly(r, outcome) ==
    LET newest == \A q \in routeInflight : q.id <= r.id
        distance == IF newest THEN RouteDistanceAfterFetch(outcome, r.coords)
                    ELSE totalDistance
    IN  /\ routeInflight' = routeInflight \ {r}
        /\ totalDistance' = distance
        /\ tripCost' = TripCost(distance)
        /\ effect' = "none"
        /\ UNCHANGED <<showMap, startingAddress, endingAddress, destinations,
                       submittedData, startCoords, endCoords, geoInflight,
                       providerRequests, now>>
        /\ searchOp' = "none"
        /\ UNCHANGED <<searchValue, fetcherVars, calc>>

\* const distance = await calculateRouteDistance(...); onDistanceCalculated(distance)
RouteSettles(r, outcome) ==
    LET distance == RouteDistanceAfterFetch(outcome, r.coords)
    IN  /\ routeInflight' = routeInflight \ {r}
        /\ totalDistance' = distance
        /\ tripCost' = TripCost(distance)
        /\ effect' = "none"
        /\ UNCHANGED <<showMap, startingAddress, endingAddress, destinations,
                       submittedData, startCoords, endCoords, geoInflight,
                       providerRequests, now>>
        /\ searchOp' = "none"
        /\ UNCHANGED <<searchValue, fetcherVars, calc>>

\* onSubmit, once the schema accepts the fields (addresses of 5 characters
\* or more)
Submit ==
    /\ submittedData = <<>>
    /\ Len(startingAddress) >= 5
    /\ Len(endingAddress) >= 5
    /\ submittedData' = <<[destinations |-> destinations,
                           totalDistance |-> totalDistance,
                           tripCost |-> tripCost]>>
    /\ effect' = "none"
    /\ UNCHANGED <<showMap, startingAddress, endingAddress, destinations, totalDistance,
                   tripCost, startCoords, endCoords, geoInflight, routeInflight,
                   providerRequests, now>>
    /\ searchOp' = "none"
    /\ answer' = NoAnswer
    /\ UNCHANGED <<searchValue, fetcherVars, calc>>

\* ------------------------------------------------------------------------
\* The destination search input, rendered by the form and given the
\* form's destinations and setDestinations.  A waypoint's name is not
\* modelled.
\* ------------------------------------------------------------------------
SearchTexts == {<<>>, <<" ">>, Tunis}

\* The suggestions the list of the input can show.
SearchSuggestions == {MatchNorth}

\* handleLocationSelect when the clock reads t: the waypoint is appended,
\* the text is cleared, and the selector, when rendered, runs its distance
\* effect on the new list.
HandleLocationSelect(lat, lng, t) ==
    /\ submittedData = <<>>
    /\ Len(destinations) < MaxWaypoints
    /\ t >= now
    /\ now' = t
    /\ destinations' = Append(destinations,
                              [id |-> NumberToString(t), lat |-> lat, lng |-> lng])
    /\ searchValue' = <<>>
    /\ answer' = NoAnswer
    /\ IF showMap
       THEN CalculateTotalDistance(providerRequests, startCoords, destinations', endCoords)
       ELSE /\ effect' = "none"
            /\ UNCHANGED <<totalDistance, tripCost, routeInflight, providerRequests>>
    /\ UNCHANGED <<showMap, startingAddress, endingAddress, submittedData, startCoords,
                   endCoords, geoInflight>>
    /\ UNCHANGED <<fetcherVars, calc>>

\* onChange={setSearchValue}, from handleInputChange
ChangeSearchValue(t) ==
    /\ submittedData = <<>>
    /\ t # searchValue
    /\ searchValue' = t
    /\ searchOp' = "change"
    /\ answer' = NoAnswer
    /\ effect' = "none"
    /\ UNCHANGED <<showMap, startingAddress, endingAddress, destinations, totalDistance,
                   tripCost, submittedData, startCoords, endCoords, geoInflight,
                   routeInflight, providerRequests, now>>
    /\ UNCHANGED <<fetcherVars, calc>>

\* handleSuggestionClick on suggestion s of the list
HandleSuggestionClick(s, t) ==
    /\ searchOp' = "select"
    /\ HandleLocationSelect(ParseFloat(s.lat), ParseFloat(s.lon), t)

\* handleAddCurrent, from the button shown while the text is not empty
HandleAddCurrent(t) ==
    /\ searchValue # <<>>
    /\ searchOp' = "addCurrent"
    /\ IF Trim(searchValue) # <<>>
       THEN HandleLocationSelect(0, 0, t)
       ELSE /\ submittedData = <<>>
            /\ answer' = NoAnswer
            /\ effect' = "none"
            /\ UNCHANGED <<showMap, startingAddress, endingAddress, destinations,
                           totalDistance, tripCost, submittedData, startCoords,
                           endCoords, geoInflight, routeInflight, providerRequests,
                           now, searchValue>>
            /\ UNCHANGED <<fetcherVars, calc>>

\* ------------------------------------------------------------------------
\* Direct calls of calculateStraightLineDistance, calculateRouteDistance
\* and geocodeAddress
\* ------------------------------------------------------------------------
CoordSeqs == UNION {[1..n -> CalcPoints] : n \in 0..MaxCoords}

NoOutcome == RouteOutcome("none", FALSE, 0)

\* coords, address: the argument; fn: the function called; pc: idle, fetch or
\* done; requests: requests sent; outcome, answer: what the provider did;
\* result: the number returned; place: the coordinate returned.
NoCall ==
    [coords |-> <<>>, address |-> <<>>, fn |-> "none", pc |-> "idle", requests |-> 0,
     result |-> Num(0), outcome |-> NoOutcome, answer |-> NoAnswer, place |-> NoCoords]

CallStraightLine ==
    /\ calc.pc = "idle"
    /\ calc' = [calc EXCEPT !.fn = "straight", !.pc = "done",
                            !.result = CalculateStraightLineDistance(calc.coords)]
    /\ UNCHANGED <<fetcherVars, tripVars, searchVars>>

CallRouteDistance ==
    /\ calc.pc = "idle"
    /\ calc' = IF TooFewCoordinates(calc.coords)
               THEN [calc EXCEPT !.fn = "route", !.pc = "done", !.result = Num(0)]
               ELSE [calc EXCEPT !.fn = "route", !.pc = "fetch", !.requests = 1]
    /\ UNCHANGED <<fetcherVars, tripVars, searchVars>>

RouteCallSettles(outcome) ==
    /\ calc.pc = "fetch"
    /\ calc.fn = "route"
    /\ calc' = [calc EXCEPT !.pc = "done", !.outcome = outcome,
                            !.result = RouteDistanceAfterFetch(outcome, calc.coords)]
    /\ UNCHANGED <<fetcherVars, tripVars, searchVars>>

CallGeocodeAddress(address) ==
    /\ calc.pc = "idle"
    /\ calc.coords = <<>>
    /\ calc' = [calc EXCEPT !.fn = "geocode", !.pc = "fetch", !.address = address,
                            !.requests = 1]
    /\ UNCHANGED <<fetcherVars, tripVars, searchVars>>

GeocodeCallSettles(outcome) ==
    /\ calc.pc = "fetch"
    /\ calc.fn = "geocode"
    /\ calc' = [calc EXCEPT !.pc = "done", !.answer = outcome,
                            !.place = GeocodeAddress(outcome)]
    /\ UNCHANGED <<fetcherVars, tripVars, searchVars>>

\* ------------------------------------------------------------------------
\* Specifications of the suggestion fetcher
\* ------------------------------------------------------------------------
Init == Mounted(<<>>) /\ FormConstructed /\ calc = NoCall

InitWarm == Mounted(WarmCache) /\ FormConstructed /\ calc = NoCall

Next ==
    \/ \E t \in QueryTexts : ChangeQuery(t)
    \/ \E d \in TimeSteps : Advance(d)
    \/ \E t \in timers : TimerFire(t)
    \/ \E r \in inflight, ok \in BOOLEAN : FetchFulfilled(r, ok)
    \/ \E r \in inflight : FetchRejected(r)
    \/ \E r \in inflight, data \in Payloads : JsonFulfilled(r, data)
    \/ \E r \in inflight : JsonRejected(r)
    \/ \E r \in inflight : AbortErrorCaught(r)
    \/ Unmount

Spec == Init /\ [][Next]_vars

SpecWarm == InitWarm /\ [][Next]_vars

\* An await of searchLocations completes: the fetch or the body settles, or
\* the AbortError of a cancelled request is delivered.
Settle ==
    \/ \E r \in inflight, ok \in BOOLEAN : FetchFulfilled(r, ok)
    \/ \E r \in inflight : FetchRejected(r)
    \/ \E r \in inflight, data \in Payloads : JsonFulfilled(r, data)
    \/ \E r \in inflight : JsonRejected(r)
    \/ \E r \in inflight : AbortErrorCaught(r)

\* Every request settles: a pending await does not stay pending for ever.
SpecLive == Init /\ [][Next]_vars /\ WF_vars(Settle)

\* ------------------------------------------------------------------------
\* Specification of the dropdown: the text changes through the input, and
\* the keys and the rows of the list are used
\* ------------------------------------------------------------------------
NextDropdown ==
    \/ \E t \in QueryTexts : HandleInputChange(t)
    \/ Focus
    \/ BlurTimeout
    \/ \E key \in Keys : HandleKeyDown(key)
    \/ \E i \in 1..2 : SuggestionRowClick(i)
    \/ \E d \in TimeSteps : Advance(d)
    \/ \E t \in timers : TimerFire(t)
    \/ Settle
    \/ Unmount

SpecDropdown == Init /\ [][NextDropdown]_vars

\* ------------------------------------------------------------------------
\* Specification of the trip form
\* ------------------------------------------------------------------------
NextTrip ==
    \/ ShowMap
    \/ \E t \in StartTexts : ChangeStartingAddress(t)
    \/ \E t \in EndTexts : ChangeEndingAddress(t)
    \/ \E g \in geoInflight : \E o \in GeoAnswers(g.address) :
          GeocodeSettles(g, o) /\ answer' = NoAnswer
    \/ \E p \in MapPoints, t \in Instants : MapClick(p, t)
    \/ \E i \in 1..MaxWaypoints : RemoveDestination(i)
    \/ \E r \in routeInflight, o \in RouteAnswers :
          RouteSettles(r, o) /\ answer' = NoAnswer
    \/ Submit

SpecTrip == Init /\ [][NextTrip]_vars

\* ------------------------------------------------------------------------
\* Specification of the address fields: the start address is retyped from
\* one place to another, the waypoint list stays empty
\* ------------------------------------------------------------------------
RetypedStartTexts == {<<>>, Tunis, Sousse}

NextAddresses ==
    \/ ShowMap
    \/ \E t \in RetypedStartTexts : ChangeStartingAddress(t)
    \/ \E t \in EndTexts : ChangeEndingAddress(t)
    \/ \E g \in geoInflight : \E o \in GeoAnswers(g.address) :
          GeocodeSettles(g, o) /\ answer' = NoAnswer
    \/ \E r \in routeInflight, o \in RouteAnswers :
          RouteSettles(r, o) /\ answer' = NoAnswer

SpecAddresses == Init /\ [][NextAddresses]_vars

\* ------------------------------------------------------------------------
\* Specification of the provider answers: the selector with every answer
\* the two providers can give, each settling step recording the answer it
\* handled (in the other specifications the answer is not recorded)
\* ------------------------------------------------------------------------
NextAnswers ==
    \/ ShowMap
    \/ \E t \in StartTexts : ChangeStartingAddress(t)
    \/ \E t \in EndTexts : ChangeEndingAddress(t)
    \/ \E g \in geoInflight : \E o \in GeoOutcomes(g.address) :
          GeocodeSettles(g, o) /\ answer' = o
    \/ \E p \in MapPoints, t \in Instants : MapClick(p, t)
    \/ \E r \in routeInflight, o \in RouteOutcomes :
          RouteSettles(r, o) /\ answer' = o

SpecAnswers == Init /\ [][NextAnswers]_vars

\* ------------------------------------------------------------------------
\* Specification of the waypoint list: the map and the destination search
\* input over the same list, the address fields left empty
\* ------------------------------------------------------------------------
\* The map is clicked where handleAddCurrent places its waypoint, and the
\* route provider answers with a route.
WaypointMapPoints == { <<0, 0>> }

WaypointRouteAnswers == {RouteOutcome("route", TRUE, m) : m \in RouteMeters}

NextWaypoints ==
    \/ ShowMap
    \/ \E p \in WaypointMapPoints, t \in Instants : MapClick(p, t)
    \/ \E t \in SearchTexts : ChangeSearchValue(t)
    \/ \E s \in SearchSuggestions, t \in Instants : HandleSuggestionClick(s, t)
    \/ \E t \in Instants : HandleAddCurrent(t)
    \/ \E i \in 1..MaxWaypoints : RemoveDestination(i)
    \/ \E r \in routeInflight, o \in WaypointRouteAnswers :
          RouteSettles(r, o) /\ answer' = NoAnswer

SpecWaypoints == Init /\ [][NextWaypoints]_vars

\* ------------------------------------------------------------------------
\* Specification of the direct calls: any sequence of coordinates
\* ------------------------------------------------------------------------
InitCalc ==
    /\ Mounted(<<>>)
    /\ FormConstructed
    /\ calc \in {[NoCall EXCEPT !.coords = cs] : cs \in CoordSeqs}

NextCalc ==
    \/ CallStraightLine
    \/ CallRouteDistance
    \/ \E o \in RouteOutcomes : RouteCallSettles(o)
    \/ \E a \in {Tunis, Sousse} : CallGeocodeAddress(a)
    \/ \E o \in GeoOutcomes(calc.address) : GeocodeCallSettles(o)

SpecCalc == InitCalc /\ [][NextCalc]_vars

\* ========================================================================
\* Properties
\* ========================================================================
Settled(op) == op \in {"success", "failure"}

\* trimmed, case-folded form of a text, written out independently of CacheKey
Normalized(text) == Trim(ToLowerCase(text))

\* C1: a response (success or failure) of a request that was issued for an
\* earlier timer fire than the most recent one never changes the published
\* suggestions or the error.
StaleResponseNeverPublishes ==
    [][(Settled(lastOp'.op) /\ lastOp'.stale) => UNCHANGED <<suggestions, error>>]_vars

\* C2: at most one debounce timer is pending, it carries the current text,
\* and a timer fires only after DebounceMs without a query change, at most
\* once per change, for the text of the last change; the request it issues
\* (at most one) carries that text.
DebounceOneFirePerBurst ==
    /\ Cardinality(timers) <= 1
    /\ \A t \in timers : t.query = value /\ t.id = timeoutId
    /\ burstFires <= 1
    /\ lastOp.op = "change" => \A t \in timers : t.elapsed = 0
    /\ lastOp.op = "fire" =>
          /\ lastOp.query = value
          /\ quiet >= DebounceMs
          /\ lastOp.req => \E r \in inflight : r.id = issued /\ r.query = value

\* C2 witness: a burst of at least two rapid changes was followed by the one
\* fire, which issued a request.
BurstThenSingleFire ==
    lastOp.op = "fire" /\ lastOp.req /\ burst = 2 /\ burstFires = 1

\* C3: handling a text whose normalized form has fewer than 2 characters
\* issues no request and publishes the empty list with the error cleared.
ShortNormalizedQueryIssuesNothing ==
    (lastOp.op = "fire" /\ Len(Normalized(lastOp.query)) < MinQueryLength) =>
        (~lastOp.req /\ suggestions = <<>> /\ error = NoError)

\* C4: a timer fire for a text whose normalized key is in the cache
\* publishes the cached list in that step, issues no request and does not
\* touch isLoading.
CacheHitPublishesCachedList ==
    [][(lastOp'.op = "fire" /\ CacheHas(cache, Normalized(lastOp'.query))) =>
          /\ suggestions' = CacheGet(cache, Normalized(lastOp'.query))
          /\ error' = NoError
          /\ issued' = issued
          /\ isLoading' = isLoading]_vars

\* C5: after teardown nothing is published and no request is issued.
NothingAfterTeardown ==
    [][~mounted => UNCHANGED <<suggestions, error, isLoading, issued>>]_vars

\* C6: the settling of a cancelled request changes neither the error, nor
\* the published list, nor the cache; the error is set only by a step that
\* handles a failure other than a cancellation.
CancellationIsSilent ==
    [][/\ lastOp'.op = "cancelled" =>
             (error' = error /\ suggestions' = suggestions /\ cache' = cache)
       /\ (error' # NoError /\ error' # error) => lastOp'.op = "failure"]_vars

\* C6 witness: a request superseded by a later fire has settled as cancelled.
SupersededRequestCancelled ==
    lastOp.op = "cancelled" /\ lastOp.stale /\ mounted

\* C7: a genuine failure publishes the empty list, sets the error message
\* and clears isLoading, and leaves the cache as it was, without the key of
\* the failed query; a fire for a text of 2 or more characters whose key is
\* not cached issues a request for it.
GenuineFailurePublishesError ==
    [][/\ lastOp'.op = "failure" =>
             /\ suggestions' = <<>>
             /\ error' = SearchFailed
             /\ isLoading' = FALSE
             /\ cache' = cache
             /\ ~CacheHas(cache', Normalized(lastOp'.query))
       /\ (/\ lastOp'.op = "fire"
           /\ Len(lastOp'.query) >= MinQueryLength
           /\ ~CacheHas(cache, Normalized(lastOp'.query))) =>
             /\ issued' = issued + 1
             /\ \E r \in inflight' : r.id = issued' /\ r.query = lastOp'.query]_vars

\* C7 witness: a request failed after an earlier one had succeeded.
FailureAfterSuccess ==
    lastOp.op = "failure" /\ error = SearchFailed /\ cache # <<>>

\* C8: after the success of a request the cache holds the received list
\* under the normalized text of that request, the same list is published,
\* isLoading is false and the error is null.
SuccessStoresAndPublishes ==
    lastOp.op = "success" =>
        /\ CacheHas(cache, Normalized(lastOp.query))
        /\ CacheGet(cache, Normalized(lastOp.query)) = lastOp.results
        /\ suggestions = lastOp.results
        /\ isLoading = FALSE
        /\ error = NoError

\* C8 witness: a text with capitals and trailing space was answered with a
\* non-empty list.
SuccessForUnnormalizedText ==
    /\ lastOp.op = "success"
    /\ lastOp.query # Normalized(lastOp.query)
    /\ lastOp.results # <<>>

\* C9: the cache never holds more than CacheLimit entries.
CacheWithinLimit == Len(cache) <= CacheLimit

\* C9 witness: a list was stored in a full cache.
StoredIntoFullCache ==
    lastOp.op = "success" /\ Len(cache) = CacheLimit /\ lastOp.evicted # <<>>

Entries(c) == {c[i] : i \in 1..Len(c)}

\* C10: storing a new key in a cache of CacheLimit entries removes exactly
\* the entry inserted earliest and keeps all the others.
EvictionIsFifo ==
    [][(/\ lastOp'.op = "success"
        /\ Len(cache) = CacheLimit
        /\ ~CacheHas(cache, Normalized(lastOp'.query))) =>
          \E old \in Entries(cache) :
             /\ \A e \in Entries(cache) : old.stamp <= e.stamp
             /\ lastOp'.evicted = <<old>>
             /\ Len(cache') = CacheLimit
             /\ \E new \in Entries(cache') :
                   /\ new.key = Normalized(lastOp'.query)
                   /\ new.val = lastOp'.results
                   /\ Entries(cache') = (Entries(cache) \ {old}) \cup {new}]_vars

\* C10 witness: the evicted entry had answered a query since its insertion.
EvictedEntryHadHits ==
    /\ lastOp.op = "success"
    /\ Len(lastOp.evicted) = 1
    /\ lastOp.evicted[1].hit

\* C11: a search is served by a cache entry exactly when the entry's key
\* equals the normalized (trimmed, case-folded) text: with such an entry the
\* search publishes its list and issues no request; without one, it is
\* served by no entry (it issues a request or publishes the empty list).
ExactNormalizedKeyMatch ==
    [][(lastOp'.op = "fire" /\ lastOp'.query # <<>>) =>
          IF CacheHas(cache, Normalized(lastOp'.query))
          THEN suggestions' = CacheGet(cache, Normalized(lastOp'.query)) /\ ~lastOp'.req
          ELSE lastOp'.req \/ suggestions' = <<>>]_vars

\* The provider did not deliver a route: the network failed, the status was
\* not a success, or the body was malformed or without a route.
ProviderError(outcome) == outcome.kind \in
    {"network", "unparseable", "null", "noRoutes", "emptyRoutes", "noDistance"}

\* C12: for 2 or more coordinates, calculateRouteDistance returns on every
\* provider error the sum of the haversine distances over the consecutive
\* pairs of its input.
ProviderErrorFallsBackToStraightLine ==
    (/\ calc.fn = "route"
     /\ calc.pc = "done"
     /\ Len(calc.coords) >= 2
     /\ ProviderError(calc.outcome)) =>
        calc.result = CalculateStraightLineDistance(calc.coords)

\* C13: on fewer than 2 coordinates both calculateRouteDistance and
\* calculateStraightLineDistance return 0, and no request has been sent to
\* the routing provider.
FewerThanTwoCoordinatesIsZero ==
    (calc.fn \in {"route", "straight"} /\ Len(calc.coords) < 2) =>
        (calc.pc = "done" /\ calc.result = Num(0) /\ calc.requests = 0)

\* C13 witness: calculateRouteDistance has returned for a single point.
RouteDistanceOfSinglePoint ==
    calc.fn = "route" /\ calc.pc = "done" /\ Len(calc.coords) = 1

\* C20: the straight-line distance of a sequence [a, a] is 0.
SamePointDistanceIsZero ==
    (/\ calc.fn = "straight"
     /\ calc.pc = "done"
     /\ Len(calc.coords) = 2
     /\ calc.coords[1] = calc.coords[2]) =>
        calc.result = Num(0)

\* C20 witness: the distance of [a, a] was computed for a point away from
\* the equator and from the prime meridian.
SamePointAwayFromOrigin ==
    /\ calc.fn = "straight"
    /\ calc.pc = "done"
    /\ calc.coords = << <<60, -90>>, <<60, -90>> >>

\* C14: every value published as the distance is a finite number that is
\* not negative.
PublishedDistanceIsFiniteNonNegative == ~totalDistance.nan /\ totalDistance.v >= 0

\* C15: geocodeAddress completes for every answer of the provider: with the
\* coordinate of the first match when there is a match, with null otherwise.
GeocodeFirstMatchOrNull ==
    (calc.fn = "geocode" /\ calc.pc = "done") =>
        IF calc.answer.kind = "matches" /\ Len(calc.answer.matches) >= 1
        THEN calc.place = <<ParseFloat(calc.answer.matches[1].lat),
                            ParseFloat(calc.answer.matches[1].lon)>>
        ELSE calc.place = NoCoords

\* C15 witness: the provider returned two matches and the first one, at
\* (30, 30), was taken.
GeocodedFirstOfTwo ==
    /\ calc.fn = "geocode"
    /\ calc.pc = "done"
    /\ Len(calc.answer.matches) = 2
    /\ calc.answer.matches[1] # calc.answer.matches[2]
    /\ calc.place = <<30, 30>>

Resolved(c) == IF c = NoCoords THEN 0 ELSE 1

\* Entries of the assembled sequence: the resolved ends and the waypoints.
CoordinateCount == Resolved(startCoords) + Len(destinations) + Resolved(endCoords)

\* The step changed the start coordinate, the end coordinate or the
\* waypoint list while the selector is rendered.
TriggerStep ==
    /\ SelectorMounted
    /\ <<startCoords, endCoords, destinations>>' # <<startCoords, endCoords, destinations>>

\* C16: a step that issues route requests issues exactly one, and its
\* coordinates are the start coordinate if resolved, then the waypoints in
\* the order of the list, then the end coordinate if resolved; the request
\* path lists the same positions as longitude,latitude.
RequestCarriesOrderedSequence ==
    [][~(routeInflight' \subseteq routeInflight) =>
          \E r \in routeInflight' \ routeInflight :
             LET first == Resolved(startCoords')
             IN  /\ routeInflight' = routeInflight \cup {r}
                 /\ Len(r.coords) = CoordinateCount'
                 /\ first = 1 => r.coords[1] = startCoords'
                 /\ \A i \in 1..Len(destinations') :
                       r.coords[first + i] = <<destinations'[i].lat, destinations'[i].lng>>
                 /\ Resolved(endCoords') = 1 => r.coords[Len(r.coords)] = endCoords'
                 /\ Len(r.path) = Len(r.coords)
                 /\ \A i \in 1..Len(r.coords) :
                       r.path[i] = <<r.coords[i][2], r.coords[i][1]>>]_vars

\* C16 witness: a request over the start coordinate followed by two
\* waypoints at different positions.
RequestOverStartAndTwoWaypoints ==
    \E r \in routeInflight :
       /\ Len(r.coords) = 3
       /\ r.coords[1] = startCoords
       /\ r.coords[2] # r.coords[3]
       /\ Len(destinations) = 2
       /\ endCoords = NoCoords

\* C17: a trigger that leaves fewer than 2 entries issues no route request
\* and publishes nothing: the distance keeps its value.
NoPublishBelowTwoCoordinates ==
    [][(TriggerStep /\ CoordinateCount' < 2) =>
          /\ effect' = "skipped"
          /\ UNCHANGED <<totalDistance, tripCost, routeInflight, providerRequests>>]_vars

\* C17 witness: the effect ran on fewer than 2 coordinates while a non-zero
\* distance was published, and the distance is still there.
StaleDistanceKept ==
    effect = "skipped" /\ CoordinateCount < 2 /\ ~totalDistance.nan /\ totalDistance.v > 0

CostIsDistanceTimesRate ==
    LET Consistent(distance, cost) ==
            IF distance.nan THEN cost.nan ELSE ~cost.nan /\ cost.v = distance.v * 13
    IN  /\ Consistent(totalDistance, tripCost)
        /\ submittedData # <<>> =>
               Consistent(submittedData[1].totalDistance, submittedData[1].tripCost)

\* C19 witness: a record was submitted with a non-zero distance.
SubmittedWithDistance ==
    /\ submittedData # <<>>
    /\ ~submittedData[1].totalDistance.nan
    /\ submittedData[1].totalDistance.v > 0

\* C21: the straight-line distance of [a, b] equals that of [b, a].
StraightLineIsSymmetric ==
    (calc.fn = "straight" /\ calc.pc = "done" /\ Len(calc.coords) = 2) =>
        calc.result = CalculateStraightLineDistance(<<calc.coords[2], calc.coords[1]>>)

\* C21 witness: the distance between two points of different latitude and
\* longitude was computed and is not zero.
DistanceBetweenDistantPoints ==
    /\ calc.fn = "straight"
    /\ calc.pc = "done"
    /\ calc.coords = << <<0, 0>>, <<60, -90>> >>
    /\ calc.result.v > 0

\* C22: no two waypoints of the list have the same id, whatever clicks on
\* the map, accepted suggestions and removals came before.
WaypointIdsAreUnique ==
    \A i, j \in 1..Len(destinations) :
        i # j => destinations[i].id # destinations[j].id

\* C29: a step that lengthens the list is a suggestion being accepted or a
\* click on the map; it appends one waypoint at the end of the list, at the
\* coordinate of the suggestion or at the clicked position.
WaypointAddedOnlyByAcceptOrClick ==
    [][Len(destinations') > Len(destinations) =>
          LET added == destinations'[Len(destinations')]
          IN  /\ destinations' = Append(destinations, added)
              /\ \/ /\ searchOp' = "select"
                    /\ \E s \in SearchSuggestions :
                           /\ added.lat = ParseFloat(s.lat)
                           /\ added.lng = ParseFloat(s.lon)
                 \/ /\ searchOp' = "none"
                    /\ SelectorMounted
                    /\ <<added.lat, added.lng>> \in WaypointMapPoints]_vars

\* C30: a step that shortens the list removes exactly one waypoint and
\* keeps the others in their order.
RemovalTakesExactlyOne ==
    [][Len(destinations') < Len(destinations) =>
          \E i \in 1..Len(destinations) :
              destinations' = SubSeq(destinations, 1, i - 1)
                                 \o SubSeq(destinations, i + 1, Len(destinations))]_vars

\* C23: every outstanding request but the one of the newest controller has
\* been cancelled, so at most one request is outstanding and not cancelled.
AtMostOneLiveRequest ==
    /\ \A r \in inflight : ~r.aborted => r.id = abortControllerRef
    /\ Cardinality({r \in inflight : ~r.aborted}) <= 1

\* C23 witness: a second request was issued while the first was
\* outstanding; the first is cancelled, the second is not.
PreviousRequestCancelledAtIssue ==
    \E r, n \in inflight :
        /\ r.id < n.id
        /\ r.aborted
        /\ ~n.aborted
        /\ lastOp.op = "fire"
        /\ lastOp.req

\* C24: while a request that was not cancelled is outstanding, isLoading
\* is true; the completion of a cancelled request does not reset it.
LoadingWhileRequestOutstanding ==
    (\E r \in inflight : ~r.aborted) => isLoading

\* C25: a change to a text whose normalized form has fewer than 2
\* characters publishes the empty list and no error in the same step, and
\* leaves the timers as they were: none is started, none is cancelled.
ShortChangeClearsAtOnce ==
    [][(value' # value /\ Len(CacheKey(value')) < MinQueryLength) =>
          /\ suggestions' = <<>>
          /\ error' = NoError
          /\ timers' = timers]_vars

\* The coordinates geocodeAddress can return for an address.
PlacesOf(address) == {GeocodeAddress(o) : o \in GeoAnswers(address)}

\* C26: no resolution is cancelled, and whenever a resolution settles, its
\* result becomes the coordinate of its field, whether or not a resolution
\* of a newer text of that field was started or has already settled.
LastGeocodeToArriveWins ==
    [][/\ Cardinality(geoInflight \ geoInflight') <= 1
       /\ \A g \in geoInflight \ geoInflight' :
             IF g.field = "start"
             THEN startCoords' \in PlacesOf(g.address) /\ endCoords' = endCoords
             ELSE endCoords' \in PlacesOf(g.address) /\ startCoords' = startCoords]_vars

\* C26 witness: the start address was changed from Tunis to Sousse, both
\* resolutions have settled, and the start coordinate is the place of
\* Tunis, whose answer arrived last.
StaleStartCoordinateHeld ==
    /\ startingAddress = Sousse
    /\ geoInflight = {}
    /\ startCoords = <<30, 30>>
    /\ startCoords \notin PlacesOf(Sousse)

\* The distances calculateRouteDistance can return for a coordinate sequence.
DistancesOf(coords) == {RouteDistanceAfterFetch(o, coords) : o \in RouteAnswers}

\* C27: no route computation is cancelled, and whenever one completes, its
\* distance is published, whether or not a computation for a newer
\* coordinate sequence was started or has already completed.
LastRouteToCompleteWins ==
    [][/\ Cardinality(routeInflight \ routeInflight') <= 1
       /\ \A r \in routeInflight \ routeInflight' :
             /\ totalDistance' \in DistancesOf(r.coords)
             /\ tripCost' = TripCost(totalDistance')]_vars

\* C27 witness: every request has settled, and the published distance is
\* one that no answer for the present coordinate sequence can give: it is
\* the distance of a superseded sequence.
DistanceOfSupersededSequencePublished ==
    /\ routeInflight = {}
    /\ geoInflight = {}
    /\ EnoughCoordinates(AllCoordinates(startCoords, destinations, endCoords))
    /\ totalDistance \notin DistancesOf(AllCoordinates(startCoords, destinations, endCoords))

LoadingEndsWithRequests ==
    /\ [](inflight = {} => ~isLoading)
    /\ <>[](inflight = {} /\ ~isLoading)

\* C31 witness: two requests were issued, the cancelled one settled last,
\* and isLoading is false.
AllSettledCancelledLast ==
    /\ issued = 2
    /\ inflight = {}
    /\ lastOp.op = "cancelled"
    /\ ~isLoading

\* C36: selectedIndex is -1 or an index into the published list, and the
\* Enter key accepts a suggestion only at such an index.
SelectedIndexWithinList ==
    /\ [](selectedIndex = -1 \/ (selectedIndex >= 0 /\ selectedIndex < Len(suggestions)))
    /\ [][(lastOp'.op = "Enter" /\ lastOp' # lastOp) =>
             (selectedIndex >= 0 /\ selectedIndex < Len(suggestions))]_vars

\* C32: while the error is set the published list is empty; a step that
\* publishes a non-empty list or issues a request leaves the error null,
\* and a step that sets the error leaves the list empty.
ErrorImpliesEmptyList ==
    /\ [](error # NoError => suggestions = <<>>)
    /\ [][/\ (suggestions' # suggestions /\ suggestions' # <<>>) => error' = NoError
          /\ (lastOp'.op = "success" /\ suggestions' # <<>>) => error' = NoError
          /\ issued' # issued => error' = NoError
          /\ (error' # error /\ error' # NoError) => suggestions' = <<>>]_vars

\* C32 witness: a request failed while a list received earlier was
\* published; the error is set and the list is empty.
ErrorReplacedPublishedList ==
    /\ lastOp.op = "failure"
    /\ error = SearchFailed
    /\ suggestions = <<>>
    /\ isOpen
    /\ \E i \in 1..Len(cache) : cache[i].val # <<>>

\* C33: a change of the start or end address to the empty text issues no
\* request and leaves both coordinates as they were; a route request issued
\* while the start text is empty still begins with the start coordinate
\* held, and one issued while the end text is empty still ends with the
\* end coordinate held.
EmptyAddressKeepsCoordinate ==
    [][/\ (\/ (startingAddress' = <<>> /\ startingAddress # <<>>)
           \/ (endingAddress' = <<>> /\ endingAddress # <<>>)) =>
             /\ geoInflight' = geoInflight
             /\ routeInflight' = routeInflight
             /\ providerRequests' = providerRequests
             /\ startCoords' = startCoords
             /\ endCoords' = endCoords
       /\ \A r \in routeInflight' \ routeInflight :
             /\ (startingAddress' = <<>> /\ startCoords' # NoCoords) =>
                    r.coords[1] = startCoords'
             /\ (endingAddress' = <<>> /\ endCoords' # NoCoords) =>
                    r.coords[Len(r.coords)] = endCoords']_vars

\* C33 witness: the start text is empty, the place resolved for Tunis is
\* still the start coordinate, and a route request from that coordinate
\* to a waypoint is on its way.
EmptiedStartStillRouted ==
    /\ startingAddress = <<>>
    /\ startCoords = <<30, 30>>
    /\ geoInflight = {}
    /\ Len(destinations) = 1
    /\ \E r \in routeInflight :
          /\ r.coords = <<startCoords, <<destinations[1].lat, destinations[1].lng>> >>
          /\ r.id = providerRequests

\* The provider found no place, or the request or its body failed.
Unresolved(o) ==
    \/ o.kind \in {"network", "unparseable", "null", "object"}
    \/ o.kind = "matches" /\ o.matches = <<>>

\* C34: when a resolution settles with an answer that gives no place, the
\* coordinate of its field is null afterwards, whatever it was; and when
\* fewer than 2 entries remain, the step issues no route request and the
\* published distance and cost keep their values.
UnresolvedClearsCoordinate ==
    [][\A g \in geoInflight \ geoInflight' :
          Unresolved(answer') =>
             /\ (IF g.field = "start" THEN startCoords' ELSE endCoords') = NoCoords
             /\ CoordinateCount' < 2 =>
                   UNCHANGED <<totalDistance, tripCost, routeInflight>>]_vars

\* C34 witness: the start address had been resolved (a route request from
\* its place is still on its way), a later resolution found no match, and
\* the start coordinate is null.
ResolvedThenUnresolved ==
    /\ answer = GeoOutcome("matches", <<>>)
    /\ startCoords = NoCoords
    /\ geoInflight = {}
    /\ \E r \in routeInflight : r.coords[1] = <<30, 30>>

\* C35: when a route computation settles with a parseable body without
\* routes, 0 is published as the distance (and 0 as the cost), also when
\* the straight-line distance of its coordinates is not 0.
NoRoutesPublishesZero ==
    [][\A r \in routeInflight \ routeInflight' :
          answer'.kind \in {"noRoutes", "emptyRoutes"} =>
             /\ totalDistance' = Num(0)
             /\ tripCost' = TripCost(Num(0))]_vars

\* C35 witness: the provider answered an error status with a body without
\* routes for two waypoints at different positions, whose straight-line
\* distance is not 0, and the published distance is 0.
ZeroPublishedForDistantWaypoints ==
    /\ answer = RouteOutcome("noRoutes", FALSE, 0)
    /\ totalDistance = Num(0)
    /\ routeInflight = {}
    /\ Len(destinations) = 2
    /\ CalculateStraightLineDistance(AllCoordinates(startCoords, destinations, endCoords)).v > 0

============================================================================
